---- MODULE Spec2Model ----
(***************************************************************************)
(* Model of src/main.py: the nearest-rank percentile helper and the        *)
(* /api/check-latency handler over the process-wide telemetry list.        *)
(*                                                                         *)
(* Numbers.  A Python float is carried as an integer number of thousandths *)
(* (129.73 is 129730), so sums and comparisons are exact and round(x, 3)   *)
(* rounds a quotient to the nearest integer, ties to even.  A probability  *)
(* p is carried in hundredths (95 stands for 0.95), so p * len(values) is  *)
(* the rational p * n / 100.                                               *)
(*                                                                         *)
(* Optional values.  None is the empty sequence, a present value v is the  *)
(* one-element sequence <<v>>.                                             *)
(***************************************************************************)
EXTENDS Integers, Sequences, FiniteSets, TLC

\* telemetry: the module-level list of records (line 34)
\* values:    a list owned by a caller of percentile
\* call, ret: the last call made and what it returned or raised
VARIABLES telemetry, values, call, ret

vars == <<telemetry, values, call, ret>>

(***************************************************************************)
(* Bounds of the model.                                                    *)
(***************************************************************************)
MaxRecords == 2
MaxRegions == 2
MaxLen == 3

RegionTags == {"apac", "emea"}
RegionNames == {"apac", "APAC", "emea"}
LatencyVals == {100000, 200000}
UptimeVals == {98000}
Thresholds == {-1000, 100000}
SampleVals == {100000, 200000}
Probabilities == {0, 25, 50, 95, 100}

None == <<>>
Some(v) == <<v>>

NoCall == [fn |-> "none"]
NoReturn == [kind |-> "none"]
Return(v) == [kind |-> "return", value |-> v]
Raise(e) == [kind |-> "raise", exc |-> e]

(***************************************************************************)
(* Telemetry records: "region" is always present, "latency_ms" and         *)
(* "uptime_pct" may be missing from the dictionary.                        *)
(***************************************************************************)
Records ==
    [region : RegionTags, latency_ms : LatencyVals, uptime_pct : UptimeVals]
    \cup [region : RegionTags, uptime_pct : UptimeVals]
    \cup [region : RegionTags, latency_ms : {100000}]

SeqsUpTo(S, n) == UNION { [1..k -> S] : k \in 0..n }

Telemetries == SeqsUpTo(Records, MaxRecords)

Queries ==
    { [regions |-> rs, threshold_ms |-> t] :
        rs \in SeqsUpTo(RegionNames, MaxRegions), t \in Thresholds }

(***************************************************************************)
(* Python built-ins used by the code.                                      *)
(***************************************************************************)
Max(a, b) == IF a >= b THEN a ELSE b
Min(a, b) == IF a <= b THEN a ELSE b

\* math.ceil(num / den) for den > 0
ceil(num, den) == -((-num) \div den)

\* s[i] for a Python list s and an index i in -len(s) .. len(s)-1
index(s, i) == IF i < 0 THEN s[Len(s) + i + 1] ELSE s[i + 1]

RECURSIVE sum(_)
sum(s) == IF s = <<>> THEN 0 ELSE Head(s) + sum(Tail(s))

\* insertion of x into an ascending list, after the elements equal to it
RECURSIVE insert(_, _)
insert(x, s) ==
    IF s = <<>> THEN <<x>>
    ELSE IF x < Head(s) THEN <<x>> \o s
    ELSE <<Head(s)>> \o insert(x, Tail(s))

\* sorted(s): a new list, ascending
RECURSIVE sorted(_)
sorted(s) ==
    IF s = <<>> THEN <<>>
    ELSE insert(s[Len(s)], sorted(SubSeq(s, 1, Len(s) - 1)))

\* round(num / den, 3) for den > 0, ties to the even neighbour
round3(num, den) ==
    LET q == num \div den
        r == num % den
    IN  IF 2 * r < den THEN q
        ELSE IF 2 * r > den THEN q + 1
        ELSE IF q % 2 = 0 THEN q ELSE q + 1

(***************************************************************************)
(* percentile(values, p), lines 46-51.                                     *)
(***************************************************************************)
\* variant: math.floor in place of math.ceil on line 50
percentile_floor(vals, pp) ==
    IF vals = <<>> THEN None
    ELSE LET sv == sorted(vals)
             k == ((pp * Len(sv)) \div 100) - 1
         IN  Some(index(sv, Max(0, Min(k, Len(sv) - 1))))

\* variant: line 51 without the lower clamp, values[min(k, len(values) - 1)]
percentile_noclamp(vals, pp) ==
    IF vals = <<>> THEN None
    ELSE LET sv == sorted(vals)
             k == ceil(pp * Len(sv), 100) - 1
         IN  Some(index(sv, Min(k, Len(sv) - 1)))

\* variant: line 48 returning 0.0 for an empty list
percentile_zero(vals, pp) ==
    IF vals = <<>> THEN Some(0)
    ELSE LET sv == sorted(vals)
             k == ceil(pp * Len(sv), 100) - 1
         IN  Some(index(sv, Max(0, Min(k, Len(sv) - 1))))

percentile(vals, pp) ==
    IF vals = <<>> THEN None
    ELSE LET sv == sorted(vals)
             k == ceil(pp * Len(sv), 100) - 1
         IN  Some(index(sv, Max(0, Min(k, Len(sv) - 1))))

(***************************************************************************)
(* check_latency(query), lines 57-77.                                      *)
(***************************************************************************)
\* str.lower() on the region names of the model
lower(s) == IF s = "APAC" THEN "apac" ELSE s

\* variant: line 61 comparing r["region"].lower() == region.lower()
region_data_lower(t, region) ==
    SelectSeq(t, LAMBDA r : lower(r.region) = lower(region))

\* line 61
region_data(t, region) == SelectSeq(t, LAMBDA r : r.region = region)

\* the list comprehensions of lines 65-66 raise KeyError on a missing key
raises_KeyError(rd) ==
    \E i \in 1..Len(rd) :
        "latency_ms" \notin DOMAIN rd[i] \/ "uptime_pct" \notin DOMAIN rd[i]

latencies(rd) == [i \in 1..Len(rd) |-> rd[i].latency_ms]
uptimes(rd) == [i \in 1..Len(rd) |-> rd[i].uptime_pct]

\* variant: line 67 summing the latencies, sum(l for l in latencies if ...)
breaches_sum(lats, threshold_ms) ==
    sum(SelectSeq(lats, LAMBDA l : l > threshold_ms))

\* variant: line 67 with l >= query.threshold_ms
breaches_ge(lats, threshold_ms) ==
    Cardinality({ i \in 1..Len(lats) : lats[i] >= threshold_ms })

\* line 67
breaches(lats, threshold_ms) ==
    Cardinality({ i \in 1..Len(lats) : lats[i] > threshold_ms })

\* lines 69-75
summary(rd, threshold_ms) ==
    [ avg_latency |-> Some(round3(sum(latencies(rd)), Len(latencies(rd)))),
      p95_latency |-> Some(round3(percentile(latencies(rd), 95)[1], 1)),
      avg_uptime  |-> Some(round3(sum(uptimes(rd)), Len(uptimes(rd)))),
      breaches    |-> breaches(latencies(rd), threshold_ms),
      samples     |-> Len(rd) ]

\* regions_summary[region] = s
setitem(d, key, s) ==
    [k \in DOMAIN d \cup {key} |-> IF k = key THEN s ELSE d[k]]

\* variant: lines 62-63 replaced by a summary without statistics
region_step_keep(t, region, threshold_ms, regions_summary) ==
    LET rd == region_data(t, region)
    IN  IF rd = <<>>
        THEN Return(setitem(regions_summary, region,
                 [ avg_latency |-> None, p95_latency |-> None,
                   avg_uptime |-> None, breaches |-> 0, samples |-> 0 ]))
        ELSE IF raises_KeyError(rd) THEN Raise("KeyError")
        ELSE Return(setitem(regions_summary, region, summary(rd, threshold_ms)))

\* one iteration of the loop of line 60: the dictionary after it, or KeyError
region_step(t, region, threshold_ms, regions_summary) ==
    LET rd == region_data(t, region)
    IN  IF rd = <<>> THEN Return(regions_summary)
        ELSE IF raises_KeyError(rd) THEN Raise("KeyError")
        ELSE Return(setitem(regions_summary, region, summary(rd, threshold_ms)))

\* the loop of lines 60-75 from the i-th region on, and the return of line 77
RECURSIVE region_loop(_, _, _, _)
region_loop(t, q, i, regions_summary) ==
    IF i > Len(q.regions) THEN Return([regions |-> regions_summary])
    ELSE LET step == region_step(t, q.regions[i], q.threshold_ms, regions_summary)
         IN  IF step.kind = "raise" THEN step
             ELSE region_loop(t, q, i + 1, step.value)

\* variant: an empty region list rejected before the loop
check_latency_validating(t, q) ==
    IF q.regions = <<>> THEN Raise("InvalidRequest")
    ELSE region_loop(t, q, 1, <<>>)

check_latency(t, q) == region_loop(t, q, 1, <<>>)

(***************************************************************************)
(* The telemetry list of lines 34-41 ("service" is never read).            *)
(***************************************************************************)
SampleTelemetry == <<
    [region |-> "apac", latency_ms |-> 129730, uptime_pct |-> 98345],
    [region |-> "apac", latency_ms |-> 147850, uptime_pct |-> 98423],
    [region |-> "emea", latency_ms |-> 192120, uptime_pct |-> 97231],
    [region |-> "emea", latency_ms |-> 177540, uptime_pct |-> 97893],
    [region |-> "americas", latency_ms |-> 155110, uptime_pct |-> 98911],
    [region |-> "americas", latency_ms |-> 165550, uptime_pct |-> 99022] >>

(***************************************************************************)
(* State machine.  Spec is the program as written: the telemetry list is   *)
(* the sample data and percentile is applied to any list of the bounds.    *)
(* SpecAggregation is the handler over any telemetry list of the bounds    *)
(* (the sample data may be replaced by a loaded file, line 32).            *)
(***************************************************************************)
Init ==
    /\ telemetry = SampleTelemetry
    /\ values \in SeqsUpTo(SampleVals, MaxLen)
    /\ call = NoCall
    /\ ret = NoReturn

InitAggregation ==
    /\ telemetry \in Telemetries
    /\ values = <<>>
    /\ call = NoCall
    /\ ret = NoReturn

CheckLatency ==
    \E q \in Queries :
        /\ call' = [fn |-> "check_latency", query |-> q]
        /\ ret' = check_latency(telemetry, q)
        /\ UNCHANGED <<telemetry, values>>

\* variant: line 49 as values.sort(), sorting the caller's list in place
PercentileSortsInPlace ==
    \E pp \in Probabilities :
        /\ call' = [fn |-> "percentile", p |-> pp]
        /\ ret' = Return(percentile(values, pp))
        /\ values' = sorted(values)
        /\ UNCHANGED telemetry

\* line 49 binds the local name to a new list: the caller's list is left alone
Percentile ==
    \E pp \in Probabilities :
        /\ call' = [fn |-> "percentile", p |-> pp]
        /\ ret' = Return(percentile(values, pp))
        /\ UNCHANGED <<telemetry, values>>

Next == CheckLatency \/ Percentile

Spec == Init /\ [][Next]_vars

SpecAggregation == InitAggregation /\ [][CheckLatency]_vars

(***************************************************************************)
(* Vocabulary of the properties, stated without the operators above.       *)
(***************************************************************************)
IsCheckLatency == call.fn = "check_latency"
IsPercentile == call.fn = "percentile"
Returned == ret.kind = "return"

Requested == { call.query.regions[i] : i \in 1..Len(call.query.regions) }

\* indices of the telemetry records tagged exactly R, and tagged R up to case
Tagged(R) == { i \in 1..Len(telemetry) : telemetry[i].region = R }
TaggedAnyCase(R) ==
    { i \in 1..Len(telemetry) : lower(telemetry[i].region) = lower(R) }

\* ceil(pp * n / 100) - 1 clamped into 0 .. n-1, for n > 0
NearestRank(n, pp) ==
    LET c == CHOOSE c \in 0..n : 100 * c >= pp * n /\ 100 * (c - 1) < pp * n
    IN  IF c - 1 < 0 THEN 0 ELSE IF c - 1 > n - 1 THEN n - 1 ELSE c - 1

\* v is the element at 0-based index r of the list s sorted ascending
AtSortedIndex(s, v, r) ==
    /\ \E i \in 1..Len(s) : s[i] = v
    /\ Cardinality({ i \in 1..Len(s) : s[i] < v }) <= r
    /\ Cardinality({ i \in 1..Len(s) : s[i] <= v }) > r

IsMinimum(s, v) ==
    (\E i \in 1..Len(s) : s[i] = v) /\ (\A i \in 1..Len(s) : v <= s[i])
IsMaximum(s, v) ==
    (\E i \in 1..Len(s) : s[i] = v) /\ (\A i \in 1..Len(s) : v >= s[i])

\* the latency_ms values of the records tagged R, in telemetry order
LatenciesOf(R) ==
    LET rd == SelectSeq(telemetry, LAMBDA r : r.region = R)
    IN  [i \in 1..Len(rd) |-> rd[i].latency_ms]

AllAbsentSummary(s) ==
    /\ s.samples = 0
    /\ s.breaches = 0
    /\ s.avg_latency = None
    /\ s.p95_latency = None
    /\ s.avg_uptime = None

C4_MissingFieldTolerated ==
    IsCheckLatency =>
        /\ Returned
        /\ \A R \in DOMAIN ret.value.regions :
              ret.value.regions[R].samples = Cardinality(Tagged(R))

(***************************************************************************)
(* C5: percentile of a non-empty list is the element at index              *)
(* max(0, min(ceil(p*n) - 1, n-1)) of the list sorted ascending, an        *)
(* element of the input; the p95_latency of a region is that element for   *)
(* p = 0.95 over the region's latencies.                                   *)
(***************************************************************************)
C5_NearestRank ==
    /\ (IsPercentile /\ values # <<>>) =>
          /\ Returned
          /\ Len(ret.value) = 1
          /\ AtSortedIndex(values, ret.value[1], NearestRank(Len(values), call.p))
    /\ (IsCheckLatency /\ Returned) =>
          \A R \in DOMAIN ret.value.regions :
              /\ Len(ret.value.regions[R].p95_latency) = 1
              /\ AtSortedIndex(LatenciesOf(R), ret.value.regions[R].p95_latency[1],
                               NearestRank(Len(LatenciesOf(R)), 95))

C5_Witness ==
    /\ IsPercentile
    /\ values = <<200000, 100000, 200000>>
    /\ call.p = 25
    /\ ret = Return(Some(100000))

(***************************************************************************)
(* C6: for a non-empty list, percentile at p = 0 is the minimum and at     *)
(* p = 1 the maximum.                                                      *)
(***************************************************************************)
C6_MinAndMax ==
    (IsPercentile /\ values # <<>>) =>
        /\ call.p = 0 => (Len(ret.value) = 1 /\ IsMinimum(values, ret.value[1]))
        /\ call.p = 100 => (Len(ret.value) = 1 /\ IsMaximum(values, ret.value[1]))

C6_Witness ==
    /\ IsPercentile
    /\ values = <<200000, 200000, 100000>>
    /\ call.p = 0
    /\ ret = Return(Some(100000))

(***************************************************************************)
(* C7: percentile of an empty list returns None for every p; it does not   *)
(* return zero and does not raise.                                         *)
(***************************************************************************)
C7_EmptyIsNone ==
    (IsPercentile /\ values = <<>>) => ret = Return(None)

C7_Witness ==
    /\ IsPercentile
    /\ values = <<>>
    /\ call.p = 95
    /\ ret = Return(None)

(***************************************************************************)
(* C8: every region summary of a result has 0 <= breaches <= samples,      *)
(* for any threshold, negative ones included.                              *)
(***************************************************************************)
C8_BreachesWithinSamples ==
    (IsCheckLatency /\ Returned) =>
        \A R \in DOMAIN ret.value.regions :
            /\ 0 <= ret.value.regions[R].breaches
            /\ ret.value.regions[R].breaches <= ret.value.regions[R].samples

C8_Witness ==
    /\ IsCheckLatency /\ Returned
    /\ call.query.threshold_ms < 0
    /\ "apac" \in DOMAIN ret.value.regions
    /\ ret.value.regions["apac"].breaches = 2
    /\ ret.value.regions["apac"].samples = 2

(***************************************************************************)
(* C9: the breaches of a region count its latency values strictly greater  *)
(* than threshold_ms; a latency equal to the threshold is not a breach.    *)
(***************************************************************************)
C9_BreachesStrict ==
    (IsCheckLatency /\ Returned) =>
        \A R \in DOMAIN ret.value.regions :
            ret.value.regions[R].breaches =
                Cardinality({ i \in Tagged(R) :
                    telemetry[i].latency_ms > call.query.threshold_ms })

C9_Witness ==
    /\ IsCheckLatency /\ Returned
    /\ call.query.threshold_ms = 100000
    /\ "apac" \in DOMAIN ret.value.regions
    /\ \E i \in Tagged("apac") : telemetry[i].latency_ms = 100000
    /\ ret.value.regions["apac"].breaches = 1
    /\ ret.value.regions["apac"].samples = 2

(***************************************************************************)
(* C10: no call changes the telemetry list (records, order, fields) and    *)
(* percentile leaves the list it is given in the order it was given.       *)
(***************************************************************************)
C10_InputsUnchanged == [][telemetry' = telemetry /\ values' = values]_vars

C10_Witness ==
    /\ IsPercentile
    /\ call.p = 95
    /\ values = <<200000, 100000, 100000>>
    /\ ret = Return(Some(200000))
    /\ telemetry = SampleTelemetry

====
